---------------------------- MODULE Spec2Model ----------------------------
(***************************************************************************)
(* Model of analyze_alignment.py (AprilTag alignment analysis).            *)
(*                                                                         *)
(* Time is counted in ticks of 0.05 s; errors and speeds in thousandths of *)
(* their unit (mm, millidegrees, mm/s, mrad/s).  Values produced by linear *)
(* interpolation are exact rationals [n, d] (d > 0, lowest terms).         *)
(***************************************************************************)
EXTENDS Integers, Sequences, FiniteSets, TLC

VARIABLES
    data,               \* AlignmentAnalyzer.data: logical channel -> channel
    pc,                 \* position of the run: find / scan / main / done / raised / settle
    i,                  \* loop index of find_alignment_sessions (0-based)
    in_session,         \* find_alignment_sessions.in_session
    session_start_idx,  \* find_alignment_sessions.session_start_idx (-1 is None)
    sessions,           \* find_alignment_sessions.sessions, then main.sessions
    calls,              \* the (start_idx, end_idx) pairs handed to _extract_session
    opens,              \* number of idle -> in-session transitions of the scan
    printed,            \* the lines written to stdout, by tag
    summary,            \* what the summary block of main computed
    settle_in,          \* arguments of a direct _calculate_settling_time call
    settle_out,         \* its result
    signal_in,          \* the array of a direct _calculate_overshoot or
                        \* _count_zero_crossings call
    signal_out          \* its result

vars == <<data, pc, i, in_session, session_start_idx, sessions, calls, opens,
          printed, summary, settle_in, settle_out, signal_in, signal_out>>

-----------------------------------------------------------------------------
(* Program constants, in model units *)

\* duration < 0.1 (s), in ticks of 0.05 s
MinDuration == 2
\* settle_duration=0.5 (s), in ticks of 0.05 s
settle_duration == 10
\* forward_tol=0.10 (m), in mm
forward_tol == 100
\* lateral_tol=0.05 (m), in mm
lateral_tol == 50
\* rotation_tol=2.0 (deg), in millidegrees
rotation_tol == 2000
\* abs(initial_error) < 0.001, in thousandths
overshoot_guard == 1

(* Bounds of the model *)

\* longest status channel enumerated exhaustively
MaxStatusLen == 3
\* largest gap, in ticks, between two consecutive status samples
MaxGap == 2
\* last tick at which the data channels of a long log carry a sample
Horizon == 26
\* last tick at which the data channels of a short log carry a sample
ShortHorizon == 6
\* longest array handed directly to _calculate_settling_time
MaxSamples == 4
\* the longest array given to _calculate_overshoot and _count_zero_crossings
MaxSignalLen == 4

-----------------------------------------------------------------------------
(* Exact arithmetic *)

Abs(x) == IF x < 0 THEN -x ELSE x

RECURSIVE GCD(_, _)
GCD(a, b) == IF b = 0 THEN a ELSE GCD(b, a % b)

\* the rational n/d (d # 0) in lowest terms with a positive denominator
Rat(n, d) ==
    LET s == IF d < 0 THEN -1 ELSE 1
        g == GCD(Abs(n), Abs(d))
    IN  [n |-> (s * n) \div g, d |-> (s * d) \div g]

RatInt(k) == [n |-> k, d |-> 1]
RatLess(a, b) == a.n * b.d < b.n * a.d
RatAbs(a) == [n |-> Abs(a.n), d |-> a.d]
RatAdd(a, b) == Rat(a.n * b.d + b.n * a.d, a.d * b.d)

\* Optional[float]: None, or a value
None == [isNone |-> TRUE, v |-> 0]
Some(x) == [isNone |-> FALSE, v |-> x]

\* a channel the log does not hold (self.data[key] is None, or no such key)
Absent == [present |-> FALSE, timestamps |-> <<>>, values |-> <<>>]
Chan(ts, vs) == [present |-> TRUE, timestamps |-> ts, values |-> vs]

\* s[mask]: the elements of s at which mask holds, in order
MaskSeq(s, mask) ==
    LET F[k \in 0..Len(s)] ==
            IF k = 0 THEN <<>>
            ELSE IF mask[k] THEN Append(F[k - 1], s[k]) ELSE F[k - 1]
    IN  F[Len(s)]

-----------------------------------------------------------------------------
(* _extract_session and its helpers *)

\* get_values_in_range with the mask (times >= start_time) & (times < end_time)
get_values_in_range_halfopen(data_dict, key, start_time, end_time) ==
    IF ~data_dict[key].present
    THEN [isList |-> TRUE, t |-> <<>>, v |-> <<>>]
    ELSE LET times == data_dict[key].timestamps
             values == data_dict[key].values
             mask == [k \in 1..Len(times) |->
                        times[k] >= start_time /\ times[k] < end_time]
         IN  [isList |-> FALSE, t |-> MaskSeq(times, mask), v |-> MaskSeq(values, mask)]

\* get_values_in_range: ([], []) python lists for a missing channel, else the
\* ndarray slices times[mask], values[mask]
get_values_in_range(data_dict, key, start_time, end_time) ==
    IF ~data_dict[key].present
    THEN [isList |-> TRUE, t |-> <<>>, v |-> <<>>]
    ELSE LET times == data_dict[key].timestamps
             values == data_dict[key].values
             mask == [k \in 1..Len(times) |->
                        times[k] >= start_time /\ times[k] <= end_time]
         IN  [isList |-> FALSE, t |-> MaskSeq(times, mask), v |-> MaskSeq(values, mask)]

\* np.interp(x, xp, fp) for one x: linear between the bracketing samples,
\* clamped to the edge values outside [xp[0], xp[-1]]
np_interp(x, xp, fp) ==
    LET n == Len(xp) IN
    IF x <= xp[1] THEN RatInt(fp[1])
    ELSE IF x >= xp[n] THEN RatInt(fp[n])
    ELSE LET j == CHOOSE j \in 1..(n - 1) : xp[j] <= x /\ x < xp[j + 1]
         IN  Rat(fp[j] * (xp[j + 1] - xp[j]) + (fp[j + 1] - fp[j]) * (x - xp[j]),
                 xp[j + 1] - xp[j])

\* interp_to_common: zeros_like(t_dest) for an empty source, else np.interp
interp_to_common(t_src, vals, t_dest) ==
    IF Len(t_src) = 0 \/ Len(vals) = 0
    THEN [k \in 1..Len(t_dest) |-> RatInt(0)]
    ELSE [k \in 1..Len(t_dest) |-> np_interp(t_dest[k], t_src, vals)]

\* values.astype(float) of a boolean array
astype_float(vals) == [k \in 1..Len(vals) |-> IF vals[k] THEN 1 ELSE 0]

\* array > 0.5
gt_half(arr) == [k \in 1..Len(arr) |-> 2 * arr[k].n > arr[k].d]

-----------------------------------------------------------------------------
(* _calculate_metrics and its helpers *)

RatDiv(a, b) == Rat(a.n * b.d, a.d * b.n)
RatSign(a) == IF a.n > 0 THEN 1 ELSE IF a.n < 0 THEN -1 ELSE 0

\* np.min / np.max of a non-empty array
RatMin(arr) == CHOOSE x \in {arr[k] : k \in 1..Len(arr)} :
                   \A k \in 1..Len(arr) : ~RatLess(arr[k], x)
RatMax(arr) == CHOOSE x \in {arr[k] : k \in 1..Len(arr)} :
                   \A k \in 1..Len(arr) : ~RatLess(x, arr[k])

\* np.sum of an array
RatSum(arr) ==
    LET F[k \in 0..Len(arr)] ==
            IF k = 0 THEN RatInt(0) ELSE RatAdd(F[k - 1], arr[k])
    IN  F[Len(arr)]

ArrAbs(arr) == [k \in 1..Len(arr) |-> RatAbs(arr[k])]

\* the mask of samples at which all three errors are within tolerance
WithinTol(forward_err, lateral_err, rotation_err, forward_tol_, lateral_tol_, rotation_tol_) ==
    [k \in 1..Len(forward_err) |->
        /\ RatLess(RatAbs(forward_err[k]), RatInt(forward_tol_))
        /\ RatLess(RatAbs(lateral_err[k]), RatInt(lateral_tol_))
        /\ RatLess(RatAbs(rotation_err[k]), RatInt(rotation_tol_))]

\* timestamps > time_at_i + settle_duration: the window's last instant left out
future_mask_strict(timestamps, time_at_i, settle_duration_) ==
    [j \in 1..Len(timestamps) |-> timestamps[j] > time_at_i + settle_duration_]

\* future_mask = timestamps >= (time_at_i + settle_duration)
future_mask(timestamps, time_at_i, settle_duration_) ==
    [j \in 1..Len(timestamps) |-> timestamps[j] >= time_at_i + settle_duration_]

\* _calculate_settling_time: the timestamp of the first in-tolerance sample
\* whose future_mask is not empty and selects in-tolerance samples only
_calculate_settling_time(timestamps, forward_err, lateral_err, rotation_err, forward_tol_, lateral_tol_, rotation_tol_, settle_duration_) ==
    LET within_tol == WithinTol(forward_err, lateral_err, rotation_err,
                                forward_tol_, lateral_tol_, rotation_tol_)
        n == Len(timestamps)
        future(k) == future_mask(timestamps, timestamps[k], settle_duration_)
        hit == {k \in 1..n : /\ within_tol[k]
                             /\ \E j \in 1..n : future(k)[j]
                             /\ \A j \in 1..n : future(k)[j] => within_tol[j]}
    IN  IF \A k \in 1..n : ~within_tol[k] THEN None
        ELSE IF hit = {} THEN None
        ELSE Some(timestamps[CHOOSE k \in hit : \A m \in hit : k <= m])

\* _calculate_overshoot looking for the swing below zero whatever the sign
\* of the initial error
_calculate_overshoot_min(error) ==
    IF Len(error) < 2 THEN RatInt(0)
    ELSE LET initial_error == error[1] IN
         IF RatLess(RatAbs(initial_error), RatInt(overshoot_guard)) THEN RatInt(0)
         ELSE LET overshoot == RatMin(error) IN
              IF overshoot.n < 0
              THEN RatAbs(Rat(100 * RatDiv(overshoot, initial_error).n,
                              RatDiv(overshoot, initial_error).d))
              ELSE RatInt(0)

\* _calculate_overshoot, as a percentage
_calculate_overshoot(error) ==
    IF Len(error) < 2 THEN RatInt(0)
    ELSE LET initial_error == error[1] IN
         IF RatLess(RatAbs(initial_error), RatInt(overshoot_guard)) THEN RatInt(0)
         ELSE IF initial_error.n > 0
              THEN LET overshoot == RatMin(error) IN
                   IF overshoot.n < 0
                   THEN RatAbs(Rat(100 * RatDiv(overshoot, initial_error).n,
                                   RatDiv(overshoot, initial_error).d))
                   ELSE RatInt(0)
              ELSE LET overshoot == RatMax(error) IN
                   IF overshoot.n > 0
                   THEN RatAbs(Rat(100 * RatDiv(overshoot, initial_error).n,
                                   RatDiv(overshoot, initial_error).d))
                   ELSE RatInt(0)

\* _count_zero_crossings counting only the pairs of opposite non-zero signs
_count_zero_crossings_strict(signal) ==
    IF Len(signal) < 2 THEN 0
    ELSE Cardinality({k \in 1..(Len(signal) - 1) :
                        RatSign(signal[k + 1]) * RatSign(signal[k]) < 0})

\* _count_zero_crossings: np.sum(np.diff(np.sign(signal)) != 0)
_count_zero_crossings(signal) ==
    IF Len(signal) < 2 THEN 0
    ELSE Cardinality({k \in 1..(Len(signal) - 1) :
                        RatSign(signal[k + 1]) - RatSign(signal[k]) # 0})

\* _count_target_losses: transitions from True to False
_count_target_losses(has_target) ==
    IF Len(has_target) < 2 THEN 0
    ELSE Cardinality({k \in 1..(Len(has_target) - 1) :
                        has_target[k] = TRUE /\ has_target[k + 1] = FALSE})

\* alignment_time: timestamps[np.where(aligned_flags)[0][0]] when any flag is set
AlignmentTime(timestamps, aligned_flags) ==
    LET aligned_indices == {k \in 1..Len(aligned_flags) : aligned_flags[k]} IN
    IF aligned_indices = {} THEN None
    ELSE Some(timestamps[CHOOSE k \in aligned_indices :
                            \A m \in aligned_indices : k <= m])

NoneRat == [isNone |-> TRUE, v |-> RatInt(0)]
LastOf(arr) == IF Len(arr) > 0 THEN Some(arr[Len(arr)]) ELSE NoneRat
MaxAbs(arr) == IF Len(arr) > 0 THEN RatMax(ArrAbs(arr)) ELSE RatInt(0)
MeanAbs(arr) ==
    IF Len(arr) > 0
    THEN Rat(RatSum(ArrAbs(arr)).n, RatSum(ArrAbs(arr)).d * Len(arr))
    ELSE RatInt(0)

_calculate_metrics(timestamps, forward_error, lateral_error, rotation_error, forward_speed, lateral_speed, rotation_speed, has_target, aligned_flags) ==
    [success |-> \E k \in 1..Len(aligned_flags) : aligned_flags[k],
     alignment_time |-> AlignmentTime(timestamps, aligned_flags),
     settling_time |->
        _calculate_settling_time(timestamps, forward_error, lateral_error,
                                 rotation_error, forward_tol, lateral_tol,
                                 rotation_tol, settle_duration),
     final_forward_error |-> LastOf(forward_error),
     final_lateral_error |-> LastOf(lateral_error),
     final_rotation_error |-> LastOf(rotation_error),
     max_forward_error |-> MaxAbs(forward_error),
     max_lateral_error |-> MaxAbs(lateral_error),
     max_rotation_error |-> MaxAbs(rotation_error),
     forward_overshoot |-> _calculate_overshoot(forward_error),
     lateral_overshoot |-> _calculate_overshoot(lateral_error),
     rotation_overshoot |-> _calculate_overshoot(rotation_error),
     forward_oscillations |-> _count_zero_crossings(forward_error),
     lateral_oscillations |-> _count_zero_crossings(lateral_error),
     rotation_oscillations |-> _count_zero_crossings(rotation_error),
     avg_forward_speed |-> MeanAbs(forward_speed),
     avg_lateral_speed |-> MeanAbs(lateral_speed),
     avg_rotation_speed |-> MeanAbs(rotation_speed),
     target_lost_count |-> _count_target_losses(has_target)]

-----------------------------------------------------------------------------
(* _extract_session *)

\* the reference timestamp array: forward-error's when it has samples in the
\* window, else rotation-error's (the caller returns None when both are empty)
reference_timestamps(t_forward_err, t_rotation_err) ==
    IF Len(t_forward_err) > 0 THEN t_forward_err ELSE t_rotation_err

\* timestamps - timestamps[0]: the clock shifted to the first reference sample
relative_time_first(timestamps, start_time) ==
    [k \in 1..Len(timestamps) |-> timestamps[k] - timestamps[1]]

\* timestamps - start_time
relative_time(timestamps, start_time) ==
    [k \in 1..Len(timestamps) |-> timestamps[k] - start_time]

\* has_target used as sampled, without interpolation onto the reference
resample_has_target_raw(t_has_target, has_target, timestamps) ==
    [k \in 1..Len(has_target) |-> has_target[k]]

\* interp_to_common(t_has_target, has_target.astype(float), timestamps) > 0.5
resample_has_target(t_has_target, has_target, timestamps) ==
    gt_half(interp_to_common(t_has_target, astype_float(has_target), timestamps))

\* interp_to_common(t_aligned, aligned_flags.astype(float), timestamps) > 0.5
resample_aligned(t_aligned, aligned_flags, timestamps) ==
    gt_half(interp_to_common(t_aligned, astype_float(aligned_flags), timestamps))

\* duration <= 0.1: a session of exactly 0.1 s is dropped too
too_short_le(duration) == duration <= MinDuration

\* if duration < 0.1: ignore very short sessions
too_short(duration) == duration < MinDuration

ReturnNone == [kind |-> "none", s |-> <<>>]
\* AttributeError: 'list' object has no attribute 'astype'
RaiseAttributeError == [kind |-> "raise", s |-> <<>>]

_extract_session(data_dict, start_idx, end_idx) ==
    LET status_data == data_dict.status
        start_time == status_data.timestamps[start_idx + 1]
        end_time == status_data.timestamps[end_idx + 1]
        duration == end_time - start_time
        get(key) == get_values_in_range(data_dict, key, start_time, end_time)
        fe == get("forward_error")
        le == get("lateral_error")
        re == get("rotation_error")
        fs == get("forward_speed")
        ls == get("lateral_speed")
        rs == get("rotation_speed")
        ht == get("vision_has_target")
        al == get("fully_aligned")
        timestamps == reference_timestamps(fe.t, re.t)
        rel == relative_time(timestamps, start_time)
        forward_error == interp_to_common(fe.t, fe.v, timestamps)
        lateral_error == interp_to_common(le.t, le.v, timestamps)
        rotation_error == interp_to_common(re.t, re.v, timestamps)
        forward_speed == interp_to_common(fs.t, fs.v, timestamps)
        lateral_speed == interp_to_common(ls.t, ls.v, timestamps)
        rotation_speed == interp_to_common(rs.t, rs.v, timestamps)
        has_target == resample_has_target(ht.t, ht.v, timestamps)
        aligned_flags == resample_aligned(al.t, al.v, timestamps)
    IN  IF too_short(duration) THEN ReturnNone
        ELSE IF Len(fe.t) = 0 /\ Len(re.t) = 0 THEN ReturnNone
        ELSE IF ht.isList \/ al.isList THEN RaiseAttributeError
        ELSE [kind |-> "session",
              s |-> << [start_time |-> start_time,
                        end_time |-> end_time,
                        duration |-> duration,
                        metrics |-> _calculate_metrics(rel, forward_error,
                                        lateral_error, rotation_error,
                                        forward_speed, lateral_speed,
                                        rotation_speed, has_target, aligned_flags),
                        timestamps |-> rel,
                        forward_error |-> forward_error,
                        lateral_error |-> lateral_error,
                        rotation_error |-> rotation_error,
                        forward_speed |-> forward_speed,
                        lateral_speed |-> lateral_speed,
                        rotation_speed |-> rotation_speed,
                        has_target |-> has_target,
                        aligned_flags |-> aligned_flags] >>]

-----------------------------------------------------------------------------
(* find_alignment_sessions *)

\* only STARTED opens a session
IsStartTrigger_started(status) == status \in {"STARTED"}

IsStartTrigger(status) == status \in {"STARTED", "ALIGNING"}
IsEndTrigger(status) == status \in {"COMPLETED", "INTERRUPTED"}

StatusLen == Len(data.status.timestamps)
StatusAt(k) == data.status.values[k + 1]

\* self.data.get('status') is None: report and return []
FindNoStatus ==
    /\ pc = "find"
    /\ ~data.status.present
    /\ printed' = Append(printed, "ERROR: No status data found")
    /\ sessions' = <<>>
    /\ pc' = "main"
    /\ UNCHANGED <<data, i, in_session, session_start_idx, calls, opens,
                   summary, settle_in, settle_out,
                   signal_in, signal_out>>

FindStart ==
    /\ pc = "find"
    /\ data.status.present
    /\ sessions' = <<>>
    /\ in_session' = FALSE
    /\ session_start_idx' = -1
    /\ i' = 0
    /\ pc' = "scan"
    /\ UNCHANGED <<data, calls, opens, printed, summary, settle_in, settle_out,
                   signal_in, signal_out>>

\* not in_session and status in ['STARTED', 'ALIGNING']
ScanOpen ==
    /\ pc = "scan"
    /\ i < StatusLen
    /\ ~in_session /\ IsStartTrigger(StatusAt(i))
    /\ in_session' = TRUE
    /\ session_start_idx' = i
    /\ opens' = opens + 1
    /\ i' = i + 1
    /\ UNCHANGED <<data, pc, sessions, calls, printed, summary, settle_in, settle_out,
                   signal_in, signal_out>>

\* the end of a session handled without `in_session = False`: the session
\* stays open after its extraction
ScanClose_keep_open ==
    /\ pc = "scan"
    /\ i < StatusLen
    /\ ~(~in_session /\ IsStartTrigger(StatusAt(i)))
    /\ in_session /\ IsEndTrigger(StatusAt(i))
    /\ LET r == _extract_session(data, session_start_idx, i) IN
       /\ calls' = Append(calls, <<session_start_idx, i>>)
       /\ IF r.kind = "raise"
          THEN /\ pc' = "raised"
               /\ UNCHANGED <<sessions, i>>
          ELSE /\ sessions' = sessions \o r.s
               /\ i' = i + 1
               /\ pc' = pc
    /\ UNCHANGED <<data, in_session, session_start_idx, opens, printed, summary,
                   settle_in, settle_out, signal_in, signal_out>>

\* in_session and status in ['COMPLETED', 'INTERRUPTED']
ScanClose ==
    /\ pc = "scan"
    /\ i < StatusLen
    /\ ~(~in_session /\ IsStartTrigger(StatusAt(i)))
    /\ in_session /\ IsEndTrigger(StatusAt(i))
    /\ LET r == _extract_session(data, session_start_idx, i) IN
       /\ calls' = Append(calls, <<session_start_idx, i>>)
       /\ IF r.kind = "raise"
          THEN /\ pc' = "raised"
               /\ UNCHANGED <<sessions, in_session, session_start_idx, i>>
          ELSE /\ sessions' = sessions \o r.s
               /\ in_session' = FALSE
               /\ session_start_idx' = -1
               /\ i' = i + 1
               /\ pc' = pc
    /\ UNCHANGED <<data, opens, printed, summary, settle_in, settle_out,
                   signal_in, signal_out>>

\* any other sample: no transition
ScanSkip ==
    /\ pc = "scan"
    /\ i < StatusLen
    /\ ~(~in_session /\ IsStartTrigger(StatusAt(i)))
    /\ ~(in_session /\ IsEndTrigger(StatusAt(i)))
    /\ i' = i + 1
    /\ UNCHANGED <<data, pc, in_session, session_start_idx, sessions, calls,
                   opens, printed, summary, settle_in, settle_out,
                   signal_in, signal_out>>

\* after the loop: a session still active at the end of the log is discarded
ScanEnd_drop ==
    /\ pc = "scan"
    /\ i = StatusLen
    /\ printed' = Append(printed, "Found alignment session(s)")
    /\ pc' = "main"
    /\ UNCHANGED <<data, i, in_session, session_start_idx, sessions, calls, opens,
                   summary, settle_in, settle_out,
                   signal_in, signal_out>>

\* after the loop: a session still active at the end of the log is extracted
\* up to the last status sample; then the function returns
ScanEnd ==
    /\ pc = "scan"
    /\ i = StatusLen
    /\ IF in_session /\ session_start_idx # -1
       THEN LET r == _extract_session(data, session_start_idx, StatusLen - 1) IN
            /\ calls' = Append(calls, <<session_start_idx, StatusLen - 1>>)
            /\ IF r.kind = "raise"
               THEN /\ pc' = "raised"
                    /\ UNCHANGED <<sessions, printed>>
               ELSE /\ sessions' = sessions \o r.s
                    /\ printed' = Append(printed, "Found alignment session(s)")
                    /\ pc' = "main"
       ELSE /\ printed' = Append(printed, "Found alignment session(s)")
            /\ pc' = "main"
            /\ UNCHANGED <<sessions, calls>>
    /\ UNCHANGED <<data, i, in_session, session_start_idx, opens, summary,
                   settle_in, settle_out,
                   signal_in, signal_out>>

-----------------------------------------------------------------------------
(* main: report and summary statistics *)

\* python truthiness of an Optional[float]: None and 0.0 are both falsy
Truthy(opt) == ~opt.isNone /\ opt.v # 0

\* [f(s) for s in sessions if keep(s)]
SelectTimes(ss, field) ==
    LET F[k \in 0..Len(ss)] ==
            IF k = 0 THEN <<>>
            ELSE IF Truthy(ss[k].metrics[field])
                 THEN Append(F[k - 1], ss[k].metrics[field].v)
                 ELSE F[k - 1]
    IN  F[Len(ss)]

SumSeq(xs) ==
    LET F[k \in 0..Len(xs)] == IF k = 0 THEN 0 ELSE F[k - 1] + xs[k]
    IN  F[Len(xs)]

\* np.mean of a non-empty list of tick counts
Mean(xs) == Rat(SumSeq(xs), Len(xs))

SuccessCount(ss) == Cardinality({k \in 1..Len(ss) : ss[k].metrics.success})

NoSummary ==
    [shown |-> FALSE, success_rate |-> RatInt(0),
     alignment_times |-> <<>>, alignment_mean |-> NoneRat,
     settling_times |-> <<>>, settling_mean |-> NoneRat]

\* the block under `if len(sessions) > 1`
Summarize(ss) ==
    LET alignment_times == SelectTimes(ss, "alignment_time")
        settling_times == SelectTimes(ss, "settling_time")
    IN  [shown |-> TRUE,
         success_rate |-> Rat(SuccessCount(ss) * 100, Len(ss)),
         alignment_times |-> alignment_times,
         alignment_mean |-> IF alignment_times # <<>>
                            THEN Some(Mean(alignment_times)) ELSE NoneRat,
         settling_times |-> settling_times,
         settling_mean |-> IF settling_times # <<>>
                           THEN Some(Mean(settling_times)) ELSE NoneRat]

SummaryLines(sm) ==
    <<"Success Rate">>
    \o (IF sm.alignment_times # <<>> THEN <<"Avg Alignment Time">> ELSE <<>>)
    \o (IF sm.settling_times # <<>> THEN <<"Avg Settling Time">> ELSE <<>>)

\* if not sessions: report that none was found and return
MainNoSessions ==
    /\ pc = "main"
    /\ sessions = <<>>
    /\ printed' = Append(printed, "No alignment sessions found in log file.")
    /\ pc' = "done"
    /\ UNCHANGED <<data, i, in_session, session_start_idx, sessions, calls,
                   opens, summary, settle_in, settle_out,
                   signal_in, signal_out>>

\* print_metrics for each session, then the summary when there are several
MainReport ==
    /\ pc = "main"
    /\ sessions # <<>>
    /\ IF Len(sessions) > 1
       THEN /\ summary' = Summarize(sessions)
            /\ printed' = printed
                            \o [k \in 1..Len(sessions) |-> "Session Metrics"]
                            \o SummaryLines(Summarize(sessions))
       ELSE /\ summary' = summary
            /\ printed' = printed \o [k \in 1..Len(sessions) |-> "Session Metrics"]
    /\ pc' = "done"
    /\ UNCHANGED <<data, i, in_session, session_start_idx, sessions, calls,
                   opens, settle_in, settle_out,
                   signal_in, signal_out>>

-----------------------------------------------------------------------------
(* The logs the analyzer is run on *)

StatusValues == {"IDLE", "STARTED", "ALIGNING", "COMPLETED", "INTERRUPTED"}

\* a status channel of n samples: the first at tick 1, then the given gaps
StatusChan(values, gaps) ==
    LET T[k \in 1..Len(values)] == IF k = 1 THEN 1 ELSE T[k - 1] + gaps[k - 1]
    IN  Chan([k \in 1..Len(values) |-> T[k]], values)

\* a channel sampled every `period` ticks from t0 to `last`; the k-th value
\* is pattern[k], the last value of the pattern being held afterwards
Periodic(t0, period, pattern, last) ==
    LET n == ((last - t0) \div period) + 1 IN
    Chan([k \in 1..n |-> t0 + (k - 1) * period],
         [k \in 1..n |-> pattern[IF k < Len(pattern) THEN k ELSE Len(pattern)]])

\* IDLE, STARTED, ALIGNING, COMPLETED, IDLE, STARTED, INTERRUPTED, 0.2 s apart
ExampleStatus ==
    Chan(<<0, 4, 8, 12, 16, 20, 24>>,
         <<"IDLE", "STARTED", "ALIGNING", "COMPLETED", "IDLE", "STARTED", "INTERRUPTED">>)

\* two long attempts, the second starting on an ALIGNING sample
TwoAttempts ==
    Chan(<<0, 16, 16, 26>>, <<"STARTED", "COMPLETED", "ALIGNING", "INTERRUPTED">>)

\* a log that ends in the middle of an attempt
Truncated ==
    Chan(<<0, 1, 3, 15>>, <<"IDLE", "STARTED", "ALIGNING", "ALIGNING">>)

\* one attempt between two data samples
OneAttempt == Chan(<<2, 6>>, <<"STARTED", "COMPLETED">>)

\* two attempts too short to count
BriefAttempts ==
    Chan(<<2, 3, 4, 4>>, <<"STARTED", "COMPLETED", "ALIGNING", "INTERRUPTED">>)

LongStatusLogs == {ExampleStatus, TwoAttempts, Truncated, OneAttempt, BriefAttempts}

ForwardErrorMenu ==
    {Absent,
     Periodic(0, 2, <<400, 150, -60, 20, 0>>, Horizon),
     Chan(<<3, 5, 17, 25>>, <<300, 90, 0, 0>>)}
RotationErrorMenu ==
    {Absent,
     Periodic(0, 1, <<9000, 5000, 1000, -500, 0>>, Horizon),
     Periodic(1, 3, <<-3000, 1500, 0>>, Horizon)}
LateralErrorMenu == {Absent, Periodic(0, 4, <<-200, 40, 0>>, Horizon)}
ForwardSpeedMenu == {Absent, Periodic(0, 2, <<1000, 500, 0>>, Horizon)}
LateralSpeedMenu == {Absent, Periodic(1, 2, <<-300, 0>>, Horizon)}
RotationSpeedMenu == {Absent, Periodic(0, 3, <<2000, -100, 0>>, Horizon)}
HasTargetMenu ==
    {Absent, Periodic(0, 1, <<TRUE, TRUE, FALSE, TRUE, FALSE, FALSE, TRUE>>, Horizon)}
FullyAlignedMenu ==
    {Absent,
     Periodic(0, 2, <<FALSE>>, Horizon),
     Periodic(0, 2, <<FALSE, FALSE, FALSE, TRUE>>, Horizon)}

Log(st, fe, le, re, fs, ls, rs, ht, al) ==
    [status |-> st, forward_error |-> fe, lateral_error |-> le,
     rotation_error |-> re, forward_speed |-> fs, lateral_speed |-> ls,
     rotation_speed |-> rs, vision_has_target |-> ht, fully_aligned |-> al]

\* a log over the first ShortHorizon ticks whose only error samples are two
\* forward-error samples, at ticks 1 and 2
ShortLog(st) ==
    Log(st, Chan(<<1, 2>>, <<300, 90>>),
        Periodic(0, 4, <<-200, 40, 0>>, ShortHorizon),
        Absent,
        Periodic(0, 2, <<1000, 500, 0>>, ShortHorizon),
        Periodic(1, 2, <<-300, 0>>, ShortHorizon),
        Periodic(0, 3, <<2000, -100, 0>>, ShortHorizon),
        Periodic(0, 1, <<TRUE, TRUE, FALSE, TRUE>>, ShortHorizon),
        Periodic(0, 1, <<FALSE, FALSE, TRUE>>, ShortHorizon))

\* the logs: a few fixed status channels with every combination of the data
\* channels, and every status channel of at most MaxStatusLen samples with
\* gaps of 0..MaxGap ticks (or no status channel) over a short log
IsLog(d) ==
    \/ \E st \in LongStatusLogs, fe \in ForwardErrorMenu, le \in LateralErrorMenu,
          re \in RotationErrorMenu, fs \in ForwardSpeedMenu, ls \in LateralSpeedMenu,
          rs \in RotationSpeedMenu, ht \in HasTargetMenu, al \in FullyAlignedMenu :
            d = Log(st, fe, le, re, fs, ls, rs, ht, al)
    \/ \E n \in 0..MaxStatusLen :
          \E vs \in [1..n -> StatusValues],
             gs \in [1..(IF n = 0 THEN 0 ELSE n - 1) -> 0..MaxGap] :
                d = ShortLog(StatusChan(vs, gs))
    \/ d = ShortLog(Absent)

NoCall == [timestamps |-> <<>>, forward_err |-> <<>>, lateral_err |-> <<>>,
           rotation_err |-> <<>>]

Init ==
    /\ IsLog(data)
    /\ pc = "find"
    /\ i = 0
    /\ in_session = FALSE
    /\ session_start_idx = -1
    /\ sessions = <<>>
    /\ calls = <<>>
    /\ opens = 0
    /\ printed = <<>>
    /\ summary = NoSummary
    /\ settle_in = NoCall
    /\ settle_out = None
    /\ signal_in = <<>>
    /\ signal_out = None

\* a sample of the three error signals (mm, mm, millidegrees)
SampleMenu ==
    { <<0, 0, 0>>, <<99, -49, -1999>>, <<100, 0, 0>>, <<0, -50, 0>>, <<-20, 10, 2000>> }
SettleGaps == {4, 10}

\* a direct call of _calculate_settling_time on arrays of n samples
SettleCall(samples, gaps) ==
    LET T[k \in 1..Len(samples)] == IF k = 1 THEN 0 ELSE T[k - 1] + gaps[k - 1]
    IN  [timestamps |-> [k \in 1..Len(samples) |-> T[k]],
         forward_err |-> [k \in 1..Len(samples) |-> RatInt(samples[k][1])],
         lateral_err |-> [k \in 1..Len(samples) |-> RatInt(samples[k][2])],
         rotation_err |-> [k \in 1..Len(samples) |-> RatInt(samples[k][3])]]

InitSettle ==
    /\ \E n \in 0..MaxSamples :
         \E samples \in [1..n -> SampleMenu],
            gaps \in [1..(IF n = 0 THEN 0 ELSE n - 1) -> SettleGaps] :
                settle_in = SettleCall(samples, gaps)
    /\ data = ShortLog(Absent)
    /\ pc = "settle"
    /\ i = 0
    /\ in_session = FALSE
    /\ session_start_idx = -1
    /\ sessions = <<>>
    /\ calls = <<>>
    /\ opens = 0
    /\ printed = <<>>
    /\ summary = NoSummary
    /\ settle_out = None
    /\ signal_in = <<>>
    /\ signal_out = None

\* settling_time = self._calculate_settling_time(..., forward_tol=0.10,
\* lateral_tol=0.05, rotation_tol=2.0)
CalcSettle ==
    /\ pc = "settle"
    /\ settle_out' = _calculate_settling_time(settle_in.timestamps,
                        settle_in.forward_err, settle_in.lateral_err,
                        settle_in.rotation_err, forward_tol, lateral_tol,
                        rotation_tol, settle_duration)
    /\ pc' = "settled"
    /\ UNCHANGED <<data, i, in_session, session_start_idx, sessions, calls, opens,
                   printed, summary, settle_in,
                   signal_in, signal_out>>

NextSettle == CalcSettle

SpecSettle == InitSettle /\ [][NextSettle]_vars

\* the values of a signal, in thousandths: 0.0005 is 1/2, the guard of
\* _calculate_overshoot is 1
SignalMenu ==
    {RatInt(-1000), RatInt(-300), RatInt(-1), Rat(-1, 2), RatInt(0), Rat(1, 2),
     RatInt(1), RatInt(100), RatInt(200), RatInt(500), RatInt(1000)}

\* a direct call of _calculate_overshoot or _count_zero_crossings on an
\* array of at most MaxSignalLen samples
InitSignal ==
    /\ \E n \in 0..MaxSignalLen : signal_in \in [1..n -> SignalMenu]
    /\ signal_out = None
    /\ data = ShortLog(Absent)
    /\ pc = "signal"
    /\ i = 0
    /\ in_session = FALSE
    /\ session_start_idx = -1
    /\ sessions = <<>>
    /\ calls = <<>>
    /\ opens = 0
    /\ printed = <<>>
    /\ summary = NoSummary
    /\ settle_in = NoCall
    /\ settle_out = None

\* self._calculate_overshoot(forward_error)
CalcOvershoot ==
    /\ pc = "signal"
    /\ signal_out' = Some(_calculate_overshoot(signal_in))
    /\ pc' = "overshoot"
    /\ UNCHANGED <<data, i, in_session, session_start_idx, sessions, calls, opens,
                   printed, summary, settle_in, settle_out, signal_in>>

\* self._count_zero_crossings(forward_error)
CountCrossings ==
    /\ pc = "signal"
    /\ signal_out' = Some(_count_zero_crossings(signal_in))
    /\ pc' = "crossings"
    /\ UNCHANGED <<data, i, in_session, session_start_idx, sessions, calls, opens,
                   printed, summary, settle_in, settle_out, signal_in>>

NextSignal ==
    \/ CalcOvershoot
    \/ CountCrossings

SpecSignal == InitSignal /\ [][NextSignal]_vars

Next ==
    \/ FindNoStatus
    \/ FindStart
    \/ ScanOpen
    \/ ScanClose
    \/ ScanSkip
    \/ ScanEnd
    \/ MainNoSessions
    \/ MainReport

Spec == Init /\ [][Next]_vars

-----------------------------------------------------------------------------
(* Vocabulary of the properties *)

StartTriggers == {"STARTED", "ALIGNING"}
EndTriggers == {"COMPLETED", "INTERRUPTED"}

\* the status value and timestamp at 0-based index k
SV(k) == data.status.values[k + 1]
ST(k) == data.status.timestamps[k + 1]

NoEndIn(lo, hi) == \A e \in lo..hi : SV(e) \notin EndTriggers

\* the scan is idle when it reaches index a: every earlier start-trigger has
\* been followed by an end-trigger before a
IdleAt(a) == \A b \in 0..(a - 1) : SV(b) \in StartTriggers => ~NoEndIn(b + 1, a - 1)

\* index a opens a candidate session
Opens(a) == SV(a) \in StartTriggers /\ IdleAt(a)

\* the candidate opened at a is closed at b
ClosedPair(a, b) ==
    /\ Opens(a)
    /\ a < b
    /\ SV(b) \in EndTriggers
    /\ NoEndIn(a + 1, b - 1)

\* the candidate opened at a is still open when the scan reaches index k
OpenAt(a, k) == a < k /\ Opens(a) /\ NoEndIn(a + 1, k - 1)

\* the timestamps of channel ch inside the closed window [lo, hi]
InWindow(ch, lo, hi) ==
    IF ~ch.present THEN <<>>
    ELSE SelectSeq(ch.timestamps, LAMBDA t : lo <= t /\ t <= hi)

\* error samples are available in the window: forward or rotation error
RefsIn(lo, hi) ==
    Len(InWindow(data.forward_error, lo, hi)) > 0
        \/ Len(InWindow(data.rotation_error, lo, hi)) > 0

\* the call (a, b) passes the duration and reference-timestamp checks
Qualifies(c) ==
    ST(c[2]) - ST(c[1]) >= MinDuration /\ RefsIn(ST(c[1]), ST(c[2]))

\* the (start_time, end_time) pairs of the qualifying calls, in call order
QualifyingTimes(cs) ==
    LET F[k \in 0..Len(cs)] ==
            IF k = 0 THEN <<>>
            ELSE IF Qualifies(cs[k])
                 THEN Append(F[k - 1], <<ST(cs[k][1]), ST(cs[k][2])>>)
                 ELSE F[k - 1]
    IN  F[Len(cs)]

SessionTimes == [k \in 1..Len(sessions) |-> <<sessions[k].start_time, sessions[k].end_time>>]

Returned == data.status.present /\ pc \in {"main", "done"}

-----------------------------------------------------------------------------
(* C1: the scan is a two-state machine: while the loop is at index i, the   *)
(* calls made so far are exactly the pairs (a, b), b < i, where a is a      *)
(* start-trigger seen while idle and b the first later end-trigger; the     *)
(* scan is in a session exactly when such an a has no end-trigger yet; no   *)
(* other sample causes a transition.  For the status sequence IDLE,         *)
(* STARTED, ALIGNING, COMPLETED, IDLE, STARTED, INTERRUPTED sampled 0.2 s   *)
(* apart, with error samples in each window, the scan returns exactly two   *)
(* sessions, spanning status indices (1, 3) and (5, 6).                     *)
SegmenterIsTwoStateMachine ==
    /\ pc = "scan" =>
        /\ {calls[k] : k \in 1..Len(calls)}
              = {c \in (0..(i - 1)) \X (0..(i - 1)) : ClosedPair(c[1], c[2])}
        /\ \A j, k \in 1..Len(calls) : j < k => calls[j][2] < calls[k][1]
        /\ in_session = (\E a \in 0..(i - 1) : OpenAt(a, i))
        /\ in_session => OpenAt(session_start_idx, i)
        /\ ~in_session => session_start_idx = -1
        /\ opens = Cardinality({a \in 0..(i - 1) : Opens(a)})
    /\ (Returned /\ data.status = ExampleStatus /\ RefsIn(4, 12) /\ RefsIn(20, 24)) =>
        /\ calls = << <<1, 3>>, <<5, 6>> >>
        /\ SessionTimes = << <<ST(1), ST(3)>>, <<ST(5), ST(6)>> >>

ExampleYieldsTwoSessions ==
    /\ pc = "done"
    /\ data.status = ExampleStatus
    /\ Len(sessions) = 2
    /\ calls = << <<1, 3>>, <<5, 6>> >>

-----------------------------------------------------------------------------
(* C5: when the scan ends with a session open, _extract_session is called   *)
(* with the opening index and the final status index, and the session is    *)
(* kept, with end_time the last status timestamp, exactly when it passes    *)
(* the duration and reference-data filters every session passes.            *)
OpenAtEnd == \E a \in 0..(StatusLen - 1) : OpenAt(a, StatusLen)
OpenStart == CHOOSE a \in 0..(StatusLen - 1) : OpenAt(a, StatusLen)

OpenSessionClosedAtLastSample ==
    /\ (Returned /\ OpenAtEnd) =>
        /\ calls # <<>>
        /\ calls[Len(calls)] = <<OpenStart, StatusLen - 1>>
        /\ SessionTimes = QualifyingTimes(calls)
        /\ Qualifies(<<OpenStart, StatusLen - 1>>) =>
              /\ sessions # <<>>
              /\ sessions[Len(sessions)].start_time = ST(OpenStart)
              /\ sessions[Len(sessions)].end_time = ST(StatusLen - 1)
    /\ (pc = "raised" /\ i = StatusLen) =>
        calls[Len(calls)] = <<OpenStart, StatusLen - 1>>

TruncatedLogYieldsSession ==
    /\ pc = "done"
    /\ OpenAtEnd
    /\ SV(StatusLen - 1) \notin EndTriggers
    /\ sessions # <<>>
    /\ sessions[Len(sessions)].end_time = ST(StatusLen - 1)
    /\ sessions[Len(sessions)].start_time = ST(OpenStart)

-----------------------------------------------------------------------------
(* C6: every session returned has duration = end_time - start_time >= 0.1 s;*)
(* a start/end pair spanning less than 0.1 s yields no session and no       *)
(* error, and when the scan returns each pair spanning 0.1 s or more with   *)
(* reference samples in range has yielded exactly one session.              *)
SessionsLastAtLeastMinDuration ==
    /\ \A k \in 1..Len(sessions) :
        /\ sessions[k].duration = sessions[k].end_time - sessions[k].start_time
        /\ sessions[k].duration >= MinDuration
    /\ Returned => SessionTimes = QualifyingTimes(calls)
    /\ pc = "raised" =>
        ST(calls[Len(calls)][2]) - ST(calls[Len(calls)][1]) >= MinDuration

ShortPairDroppedExactPairKept ==
    /\ pc = "done"
    /\ \E j, k \in 1..Len(calls) :
        /\ ST(calls[j][2]) - ST(calls[j][1]) < MinDuration
        /\ ST(calls[k][2]) - ST(calls[k][1]) = MinDuration
        /\ <<ST(calls[k][1]), ST(calls[k][2])>> \in {SessionTimes[m] : m \in 1..Len(sessions)}
    /\ Len(sessions) = 1

-----------------------------------------------------------------------------
(* Vocabulary of the properties about one session *)

SessionIdx == 1..Len(sessions)

\* the in-window timestamps of a channel for session k
WindowOf(ch, k) == InWindow(ch, sessions[k].start_time, sessions[k].end_time)

Shifted(ts, by) == [j \in 1..Len(ts) |-> ts[j] - by]

IsZeros(arr) == \A j \in 1..Len(arr) : arr[j] = RatInt(0)
IsFalses(arr) == \A j \in 1..Len(arr) : arr[j] = FALSE

-----------------------------------------------------------------------------
(* C4: whatever channels other than status the log lacks, an extraction     *)
(* that passes the duration and reference-timestamp checks completes        *)
(* without raising and yields a session with metrics; each absent signal    *)
(* is resampled to constant zero (numeric) or constant false (boolean).     *)
AbsentChannelsNeverRaise ==
    /\ pc # "raised"
    /\ Returned => SessionTimes = QualifyingTimes(calls)
    /\ \A k \in SessionIdx :
        /\ ~data.forward_error.present => IsZeros(sessions[k].forward_error)
        /\ ~data.lateral_error.present => IsZeros(sessions[k].lateral_error)
        /\ ~data.rotation_error.present => IsZeros(sessions[k].rotation_error)
        /\ ~data.forward_speed.present => IsZeros(sessions[k].forward_speed)
        /\ ~data.lateral_speed.present => IsZeros(sessions[k].lateral_speed)
        /\ ~data.rotation_speed.present => IsZeros(sessions[k].rotation_speed)
        /\ ~data.vision_has_target.present => IsFalses(sessions[k].has_target)
        /\ ~data.fully_aligned.present => IsFalses(sessions[k].aligned_flags)

-----------------------------------------------------------------------------
(* C7: the reference timestamps of a session are those of whichever of the  *)
(* forward-error and rotation-error channels has more samples in the        *)
(* window.                                                                  *)
ReferenceIsChannelWithMoreSamples ==
    \A k \in SessionIdx :
        LET F == WindowOf(data.forward_error, k)
            R == WindowOf(data.rotation_error, k)
        IN  /\ Len(R) > Len(F) => sessions[k].timestamps = Shifted(R, sessions[k].start_time)
            /\ Len(F) > Len(R) => sessions[k].timestamps = Shifted(F, sessions[k].start_time)

-----------------------------------------------------------------------------
(* C8, as stated: the session-relative timestamp array of every session     *)
(* starts at zero.                                                          *)
RelativeClockStartsAtZero ==
    \A k \in SessionIdx : sessions[k].timestamps[1] = 0

\* the first reference timestamp inside the window of session k
FirstReference(k) ==
    LET F == WindowOf(data.forward_error, k)
        R == WindowOf(data.rotation_error, k)
    IN  IF Len(F) > 0 THEN F[1] ELSE R[1]

(* C8, amended: the session-relative timestamps are the reference           *)
(* timestamps minus start_time, the timestamp of the status sample that     *)
(* opened the session; so t[0] is the offset of the first reference sample  *)
(* from that status sample, never negative, and zero only when a reference  *)
(* sample carries exactly the opening status sample's timestamp.            *)
RelativeClockStartsAtStatusSample ==
    \A k \in SessionIdx :
        /\ Len(sessions[k].timestamps) > 0
        /\ sessions[k].timestamps[1] = FirstReference(k) - sessions[k].start_time
        /\ sessions[k].timestamps[1] >= 0
        /\ \A j \in 1..Len(sessions[k].timestamps) :
              sessions[k].timestamps[j] + sessions[k].start_time
                  \in {data.forward_error.timestamps[m] :
                          m \in 1..Len(data.forward_error.timestamps)}
                      \cup {data.rotation_error.timestamps[m] :
                          m \in 1..Len(data.rotation_error.timestamps)}

FirstReferenceAfterStatusSample ==
    \E k \in SessionIdx :
        /\ sessions[k].timestamps[1] > 0
        /\ sessions[k].timestamps[1] = FirstReference(k) - sessions[k].start_time

-----------------------------------------------------------------------------
(* C9: in every session the six numeric arrays and the two boolean arrays   *)
(* have the length of the session's timestamp array, whatever the number    *)
(* of samples each channel has in the window.                               *)
SignalArraysShareTimestampLength ==
    \A k \in SessionIdx :
        LET n == Len(sessions[k].timestamps) IN
        /\ Len(sessions[k].forward_error) = n
        /\ Len(sessions[k].lateral_error) = n
        /\ Len(sessions[k].rotation_error) = n
        /\ Len(sessions[k].forward_speed) = n
        /\ Len(sessions[k].lateral_speed) = n
        /\ Len(sessions[k].rotation_speed) = n
        /\ Len(sessions[k].has_target) = n
        /\ Len(sessions[k].aligned_flags) = n

\* a session whose channels differ in their in-window sample counts, one of
\* them present in the log with no sample in the window
UnevenChannelsResampled ==
    \E k \in SessionIdx :
        /\ data.forward_error.present
        /\ Len(WindowOf(data.forward_error, k)) = 0
        /\ Len(sessions[k].timestamps) > 1
        /\ data.forward_speed.present
        /\ Len(WindowOf(data.forward_speed, k)) # Len(sessions[k].timestamps)
        /\ Len(WindowOf(data.lateral_error, k)) # Len(sessions[k].timestamps)
        /\ Len(sessions[k].forward_error) = Len(sessions[k].timestamps)

-----------------------------------------------------------------------------
(* C10: the summary's alignment_time and settling_time statistics are taken *)
(* over exactly the sessions whose value is not None, a value of 0.0        *)
(* included; with no such session the statistic is unavailable; the success *)
(* rate is count(success) / total * 100 either way.                         *)
NonNoneTimes(field) ==
    LET F[k \in 0..Len(sessions)] ==
            IF k = 0 THEN <<>>
            ELSE IF ~sessions[k].metrics[field].isNone
                 THEN Append(F[k - 1], sessions[k].metrics[field].v)
                 ELSE F[k - 1]
    IN  F[Len(sessions)]

SummaryOverNonNoneValues ==
    /\ (pc = "done" /\ Len(sessions) > 1) => summary.shown
    /\ summary.shown =>
        /\ summary.alignment_times = NonNoneTimes("alignment_time")
        /\ summary.settling_times = NonNoneTimes("settling_time")
        /\ summary.alignment_mean.isNone = (NonNoneTimes("alignment_time") = <<>>)
        /\ summary.settling_mean.isNone = (NonNoneTimes("settling_time") = <<>>)
        /\ summary.success_rate
              = Rat(100 * Cardinality({k \in SessionIdx : sessions[k].metrics.success}),
                    Len(sessions))

-----------------------------------------------------------------------------
(* Vocabulary of the properties about _calculate_settling_time *)

SettleIdx == 1..Len(settle_in.timestamps)

\* sample k is within the three tolerances
InTolerance(k) ==
    /\ RatLess(RatAbs(settle_in.forward_err[k]), RatInt(forward_tol))
    /\ RatLess(RatAbs(settle_in.lateral_err[k]), RatInt(lateral_tol))
    /\ RatLess(RatAbs(settle_in.rotation_err[k]), RatInt(rotation_tol))

(* C2: when _calculate_settling_time returns t0, every sample at or after   *)
(* t0 is within the three tolerances.                                       *)
SettledStaysWithinTolerance ==
    (pc = "settled" /\ ~settle_out.isNone) =>
        \A k \in SettleIdx : settle_in.timestamps[k] >= settle_out.v => InTolerance(k)

(* C3: if every sample before time T is out of tolerance, the samples at T  *)
(* and later are all within tolerance, and the last sample is at least      *)
(* 0.5 s after T, the settling time is T.                                   *)
FirstStableSampleIsSettlingTime ==
    pc = "settled" =>
        \A m \in SettleIdx :
            LET T == settle_in.timestamps[m] IN
            ( /\ \A k \in SettleIdx : settle_in.timestamps[k] < T => ~InTolerance(k)
              /\ \A k \in SettleIdx : settle_in.timestamps[k] >= T => InTolerance(k)
              /\ settle_in.timestamps[Len(settle_in.timestamps)] >= T + settle_duration )
            => settle_out = Some(T)

SettledAfterExcursion ==
    /\ pc = "settled"
    /\ \E m \in SettleIdx :
        LET T == settle_in.timestamps[m] IN
        /\ T > 0
        /\ \A k \in SettleIdx : settle_in.timestamps[k] < T => ~InTolerance(k)
        /\ \A k \in SettleIdx : settle_in.timestamps[k] >= T => InTolerance(k)
        /\ settle_in.timestamps[Len(settle_in.timestamps)] = T + settle_duration
        /\ settle_out = Some(T)

-----------------------------------------------------------------------------
(* Vocabulary of the properties about what find_alignment_sessions hands    *)
(* back to its caller                                                       *)

\* find_alignment_sessions has returned (with or without a status channel)
FindReturned == pc \in {"main", "done"}

\* what the caller receives: the returned list, or the exception
CallerView == [sessions |-> sessions, raised |-> pc = "raised"]

\* what the caller receives from a run whose status channel is present and
\* yields no session
NoSessionsView == [sessions |-> <<>>, raised |-> FALSE]

(* C11: when the status channel is absent, find_alignment_sessions returns  *)
(* an empty session list without raising, and what the caller receives      *)
(* differs from what it receives from a run whose status channel is         *)
(* present but yields no sessions.                                          *)
NoStatusOutcomeDistinguishable ==
    /\ ~data.status.present => pc # "raised"
    /\ (FindReturned /\ ~data.status.present) =>
        /\ sessions = <<>>
        /\ CallerView # NoSessionsView

\* a run with a status channel that returns no session: the caller receives
\* NoSessionsView
StatusPresentNoSessions ==
    /\ FindReturned
    /\ data.status.present
    /\ calls # <<>>
    /\ CallerView = NoSessionsView

-----------------------------------------------------------------------------
(* Vocabulary of the properties about the window of a session *)

NumericKeys == {"forward_error", "lateral_error", "rotation_error",
                "forward_speed", "lateral_speed", "rotation_speed"}

\* the reference timestamps of session k, in absolute log time
AbsoluteTimes(k) ==
    [j \in 1..Len(sessions[k].timestamps) |->
        sessions[k].timestamps[j] + sessions[k].start_time]

\* the samples of channel ch (of strictly increasing timestamps) carrying
\* the timestamp t
SamplesAt(ch, t) == {m \in 1..Len(ch.timestamps) : ch.timestamps[m] = t}

\* the reference channel of session k has a sample at end_time
ReferenceSampleAtEnd(k) ==
    LET F == WindowOf(data.forward_error, k)
        R == WindowOf(data.rotation_error, k)
        ref == IF Len(F) > 0 THEN F ELSE R
    IN  ref[Len(ref)] = sessions[k].end_time

(* C12, as stated: the reference timestamps of a session lie in the         *)
(* half-open window start_time <= t < end_time; a sample at end_time is     *)
(* not among them.                                                          *)
WindowIsHalfOpen ==
    \A k \in SessionIdx :
        \A j \in 1..Len(sessions[k].timestamps) :
            /\ sessions[k].start_time <= AbsoluteTimes(k)[j]
            /\ AbsoluteTimes(k)[j] < sessions[k].end_time

(* C12, amended: the window is closed.  The reference timestamps of a       *)
(* session are exactly the reference channel's samples with                 *)
(* start_time <= t <= end_time, a sample at end_time included; and every    *)
(* channel is resampled from its samples of that closed window: at a        *)
(* reference timestamp that a channel's sample carries, end_time included,  *)
(* the resampled value is that sample's value.                              *)
WindowIsClosed ==
    \A k \in SessionIdx :
        LET s == sessions[k]
            F == WindowOf(data.forward_error, k)
            R == WindowOf(data.rotation_error, k)
            ref == IF Len(F) > 0 THEN F ELSE R
        IN  /\ AbsoluteTimes(k) = ref
            /\ \A j \in 1..Len(s.timestamps) :
                /\ s.start_time <= AbsoluteTimes(k)[j]
                /\ AbsoluteTimes(k)[j] <= s.end_time
                /\ \A key \in NumericKeys :
                     \A m \in SamplesAt(data[key], AbsoluteTimes(k)[j]) :
                        s[key][j] = RatInt(data[key].values[m])
                /\ \A m \in SamplesAt(data.vision_has_target, AbsoluteTimes(k)[j]) :
                     s.has_target[j] = data.vision_has_target.values[m]
                /\ \A m \in SamplesAt(data.fully_aligned, AbsoluteTimes(k)[j]) :
                     s.aligned_flags[j] = data.fully_aligned.values[m]

\* a session whose reference channel has a sample exactly at end_time: it is
\* the last reference timestamp, and the forward error there is that
\* sample's value, not the value of the sample before it
EndSampleIncluded ==
    \E k \in SessionIdx :
        LET s == sessions[k]
            n == Len(s.timestamps)
        IN  /\ ReferenceSampleAtEnd(k)
            /\ n > 1
            /\ AbsoluteTimes(k)[n] = s.end_time
            /\ \E m \in SamplesAt(data.forward_error, s.end_time) :
                /\ m > 1
                /\ data.forward_error.values[m] # data.forward_error.values[m - 1]
                /\ s.forward_error[n] = RatInt(data.forward_error.values[m])

-----------------------------------------------------------------------------
(* Vocabulary of the properties about _calculate_overshoot and              *)
(* _count_zero_crossings                                                    *)

SignalValues == {signal_in[k] : k \in 1..Len(signal_in)}

\* min(e) and max(e) of the non-empty array passed
MinOfSignal == CHOOSE x \in SignalValues : \A y \in SignalValues : ~RatLess(y, x)
MaxOfSignal == CHOOSE x \in SignalValues : \A y \in SignalValues : ~RatLess(x, y)

\* max(0, x)
ClipAtZero(x) == IF x.n > 0 THEN x ELSE RatInt(0)

\* x / |e0| * 100
PercentOf(x, e0) == Rat(100 * x.n * e0.d, x.d * Abs(e0.n))

\* the overshoot of the array passed, by the formula: 0 for fewer than 2
\* samples or |e[0]| < 0.001 (1 thousandth); else max(0, -min(e)) / e[0] * 100
\* for e[0] > 0 and max(0, max(e)) / |e[0]| * 100 for e[0] < 0
OvershootByFormula ==
    IF Len(signal_in) < 2 THEN RatInt(0)
    ELSE IF RatLess(RatAbs(signal_in[1]), RatInt(1)) THEN RatInt(0)
    ELSE IF signal_in[1].n > 0
         THEN PercentOf(ClipAtZero([n |-> -MinOfSignal.n, d |-> MinOfSignal.d]),
                        signal_in[1])
         ELSE PercentOf(ClipAtZero(MaxOfSignal), signal_in[1])

(* C13: _calculate_overshoot(e) is 0 when len(e) < 2 or |e[0]| < 0.001, and *)
(* otherwise max(0, -min(e)) / e[0] * 100 for e[0] > 0 and                  *)
(* max(0, max(e)) / |e[0]| * 100 for e[0] < 0; [1.0, 0.5, -0.3, 0.1] gives  *)
(* 30 and [0.0005, 0.2, -0.3] gives 0.                                      *)
OvershootMatchesFormula ==
    pc = "overshoot" =>
        /\ signal_out = Some(OvershootByFormula)
        /\ signal_in = <<RatInt(1000), RatInt(500), RatInt(-300), RatInt(100)>>
              => signal_out = Some(RatInt(30))
        /\ signal_in = <<Rat(1, 2), RatInt(200), RatInt(-300)>>
              => signal_out = Some(RatInt(0))
        /\ (Len(signal_in) >= 1 /\ signal_in[1] = RatInt(0))
              => signal_out = Some(RatInt(0))

\* the overshoot of [1.0, 0.5, -0.3, 0.1] has been computed
OvershootOfExample ==
    /\ pc = "overshoot"
    /\ signal_in = <<RatInt(1000), RatInt(500), RatInt(-300), RatInt(100)>>
    /\ signal_out = Some(RatInt(30))

\* the sign bucket of a sample: "neg", "zero" or "pos"
SignBucket(x) == IF x.n < 0 THEN "neg" ELSE IF x.n = 0 THEN "zero" ELSE "pos"

\* the number of adjacent pairs among the first k samples of the array
\* passed whose sign buckets differ
RECURSIVE SignChangesUpTo(_)
SignChangesUpTo(k) ==
    IF k < 2 THEN 0
    ELSE SignChangesUpTo(k - 1)
            + (IF SignBucket(signal_in[k]) # SignBucket(signal_in[k - 1]) THEN 1 ELSE 0)

-----------------------------------------------------------------------------
\* the status timestamps never decrease
StatusTimesNonDecreasing ==
    \A k \in 1..(Len(data.status.timestamps) - 1) :
        data.status.timestamps[k] <= data.status.timestamps[k + 1]

(* C15: for a status sequence with non-decreasing timestamps, the sessions  *)
(* collected by find_alignment_sessions are in increasing time order and do *)
(* not overlap: each ends no later than the next one starts; and there are  *)
(* never more sessions than idle-to-in-session transitions of the scan.     *)
SessionsOrderedAndDisjoint ==
    StatusTimesNonDecreasing =>
        /\ \A k \in 1..(Len(sessions) - 1) :
            /\ sessions[k].start_time < sessions[k + 1].start_time
            /\ sessions[k].end_time <= sessions[k + 1].start_time
        /\ Len(sessions) <= opens

\* two sessions returned, the second opened by a status sample carrying the
\* timestamp of the one that closed the first
SessionsTouch ==
    /\ Returned
    /\ StatusTimesNonDecreasing
    /\ Len(sessions) = 2
    /\ sessions[1].end_time = sessions[2].start_time
    /\ opens = 2

=============================================================================
